---- MODULE Spec2Model ----
(***************************************************************************)
(* Package crc16: the CRC-16 engine (bit reversal, the two table builders, *)
(* the two table-driven folds), the Conf structure with its table built    *)
(* once under sync.Once, the incremental digest and the one-shot Checksum. *)
(* Registers are uint16 values, held as naturals below 2^16.               *)
(***************************************************************************)
EXTENDS Integers, Sequences, FiniteSets, TLC

(***************************************************************************)
(* Bounds of the model.                                                    *)
(***************************************************************************)
\* Goroutines that may call New and Checksum on the configuration.
NumProcs == 2
\* Write calls a digest receives between two of its New / Reset calls.
MaxWrites == 2
\* Bytes folded by Update / UpdateNBR in the specification of the folds.
MaxFold == 2

(***************************************************************************)
(* uint16 and byte arithmetic of Go.                                       *)
(***************************************************************************)
\* Number of values of a uint16.
Word == 65536
\* Number of values of a byte, and of entries of a Table.
TableLen == 256
\* Size: the size of a CRC-16 checksum in bytes.
Size == 2

Procs == 1..NumProcs
Uint16 == 0..(Word - 1)

RECURSIVE Xor16(_, _)
\* a ^ b
Xor16(a, b) ==
    IF a = 0 THEN b
    ELSE IF b = 0 THEN a
    ELSE (((a % 2) + (b % 2)) % 2) + 2 * Xor16(a \div 2, b \div 2)

RECURSIVE And16(_, _)
\* a & b
And16(a, b) ==
    IF a = 0 \/ b = 0 THEN 0
    ELSE ((a % 2) * (b % 2)) + 2 * And16(a \div 2, b \div 2)

RECURSIVE Or16(_, _)
\* a | b
Or16(a, b) ==
    IF a = 0 THEN b
    ELSE IF b = 0 THEN a
    ELSE (IF (a % 2) + (b % 2) > 0 THEN 1 ELSE 0) + 2 * Or16(a \div 2, b \div 2)

\* x >> n on a uint16
Shr(x, n) == x \div (2 ^ n)
\* x << n on a uint16: the bits shifted past bit 15 are lost
Shl16(x, n) == (x * (2 ^ n)) % Word
\* byte(x): the low 8 bits
byte(x) == x % TableLen

(***************************************************************************)
(* reverse: the loop of the source, one iteration at a time.  A loop state *)
(* holds the locals v, r and s.                                            *)
(***************************************************************************)
\* r := v; s := uint(16 - 1); and the for statement's init, v >>= 1
reverseEnter(v) == [v |-> Shr(v, 1), r |-> v, s |-> 16 - 1]
\* the for statement's condition, v != 0
reverseCond(st) == st.v # 0
\* reverseBody without s--
reverseBodyNoDec(st) ==
    [v |-> Shr(st.v, 1),
     r |-> Or16(Shl16(st.r, 1), And16(st.v, 1)),
     s |-> st.s]

\* the loop body r <<= 1; r |= v & 1; s--, then the post statement v >>= 1
reverseBody(st) ==
    [v |-> Shr(st.v, 1),
     r |-> Or16(Shl16(st.r, 1), And16(st.v, 1)),
     s |-> st.s - 1]
\* reverseReturn without the final shift r <<= s
reverseReturnNoShift(st) == st.r

\* r <<= s; return r
reverseReturn(st) == Shl16(st.r, st.s)

RECURSIVE reverseLoop(_)
reverseLoop(st) == IF reverseCond(st) THEN reverseLoop(reverseBody(st)) ELSE st

reverse(v) == reverseReturn(reverseLoop(reverseEnter(v)))

(***************************************************************************)
(* Table builders and folds.  A Table is a function on 0..255.             *)
(***************************************************************************)
RECURSIVE MakeTableRounds(_, _, _)
\* the inner loop of MakeTable, from round j on
MakeTableRounds(crc, poly, j) ==
    IF j >= 8 THEN crc
    ELSE IF And16(crc, 1) = 1
         THEN MakeTableRounds(Xor16(Shr(crc, 1), poly), poly, j + 1)
         ELSE MakeTableRounds(Shr(crc, 1), poly, j + 1)

MakeTable(poly) == [i \in 0..(TableLen - 1) |-> MakeTableRounds(i, poly, 0)]

RECURSIVE MakeTableNBRRounds(_, _, _)
\* the inner loop of MakeTableNBR, from round j on
MakeTableNBRRounds(crc, poly, j) ==
    IF j >= 8 THEN crc
    ELSE IF And16(crc, \h8000) # 0
         THEN MakeTableNBRRounds(Xor16(Shl16(crc, 1), poly), poly, j + 1)
         ELSE MakeTableNBRRounds(Shl16(crc, 1), poly, j + 1)

MakeTableNBR(poly) ==
    [i \in 0..(TableLen - 1) |-> MakeTableNBRRounds(Shl16(i, 8), poly, 0)]

\* The range loops of Update and UpdateNBR apply their body to the bytes of p
\* in order.  They are evaluated as a left fold that splits p in halves: the
\* first half is folded to the register mid, a uint16, and the second half
\* is folded from mid.  This keeps the evaluation of a long p shallow.

\* UpdateByte that keeps the whole register: tab[byte(crc)^v] ^ crc
UpdateByteNoShift(crc, tab, v) == Xor16(tab[Xor16(byte(crc), v)], crc)

\* the body of the loop of Update: crc = tab[byte(crc)^v] ^ (crc >> 8)
UpdateByte(crc, tab, v) == Xor16(tab[Xor16(byte(crc), v)], Shr(crc, 8))

RECURSIVE Update(_, _, _)
Update(crc, tab, p) ==
    IF Len(p) = 0 THEN crc
    ELSE IF Len(p) = 1 THEN UpdateByte(crc, tab, p[1])
    ELSE LET h == Len(p) \div 2
             mid == Update(crc, tab, SubSeq(p, 1, h))
         IN  IF mid \in Uint16 THEN Update(mid, tab, SubSeq(p, h + 1, Len(p))) ELSE mid

\* the body of the loop of UpdateNBR: crc = tab[byte(crc>>8)^v] ^ (crc << 8)
UpdateNBRByte(crc, tab, v) == Xor16(tab[Xor16(byte(Shr(crc, 8)), v)], Shl16(crc, 8))

RECURSIVE UpdateNBR(_, _, _)
UpdateNBR(crc, tab, p) ==
    IF Len(p) = 0 THEN crc
    ELSE IF Len(p) = 1 THEN UpdateNBRByte(crc, tab, p[1])
    ELSE LET h == Len(p) \div 2
             mid == UpdateNBR(crc, tab, SubSeq(p, 1, h))
         IN  IF mid \in Uint16 THEN UpdateNBR(mid, tab, SubSeq(p, h + 1, Len(p))) ELSE mid

(***************************************************************************)
(* Conf, and the predefined configurations.  A Conf value is created with  *)
(* the zero sync.Once, a nil table and a nil update function.              *)
(***************************************************************************)
\* the zero sync.Once: done = 0; m = 0 is the unlocked mutex, else its holder
OnceZero == [done |-> 0, m |-> 0]
\* the nil *Table
NilTable == <<>>
\* the nil func value, and the two functions update can be bound to
NilFunc == "nil"
UpdateFuncs == {"Update", "UpdateNBR"}

Conf(poly, bitRev, iniVal, finVal, bigEnd) ==
    [Poly |-> poly, BitRev |-> bitRev, IniVal |-> iniVal, FinVal |-> finVal,
     BigEnd |-> bigEnd, once |-> OnceZero, table |-> NilTable, update |-> NilFunc]

X25 == Conf(\h1021, TRUE, \hffff, \hffff, FALSE)
PPP == X25
Modbus == Conf(\h8005, TRUE, \hffff, \h0, FALSE)
XModem == Conf(\h1021, FALSE, \h0000, \h0, TRUE)
Kermit == Conf(\h1021, TRUE, \h0, \h0, FALSE)

Predefined == {X25, PPP, Modbus, XModem, Kermit}

\* Configurations a caller builds from the exported fields.
ConfPolys == {\h1021, \h8005}
ConfIniVals == {\h0000, \h1d0f}
ConfFinVals == {\h0000, \h00ff}
Confs ==
    Predefined \cup
    {Conf(poly, bitRev, iniVal, finVal, bigEnd) :
        poly \in ConfPolys, bitRev \in BOOLEAN, iniVal \in ConfIniVals,
        finVal \in ConfFinVals, bigEnd \in BOOLEAN}

\* The exported fields of a Conf: what identifies a CRC variant.
Params(conf) == <<conf.Poly, conf.BitRev, conf.IniVal, conf.FinVal, conf.BigEnd>>

(***************************************************************************)
(* The tables of the tests: cTbl (the check values of "123456789") and     *)
(* golden (PPP and Modbus sums), strings as their bytes.                   *)
(***************************************************************************)
CheckInput == <<49, 50, 51, 52, 53, 54, 55, 56, 57>>

cTbl == <<
    [cfg |-> X25, sum |-> \h906e, in |-> CheckInput],
    [cfg |-> PPP, sum |-> \h906e, in |-> CheckInput],
    [cfg |-> Modbus, sum |-> \h4b37, in |-> CheckInput],
    [cfg |-> XModem, sum |-> \h31c3, in |-> CheckInput],
    [cfg |-> Kermit, sum |-> \h2189, in |-> CheckInput]
>>

golden == <<
    [ppp |-> \h0000, modbus |-> \hffff, in |-> <<>>],
    [ppp |-> \h82f7, modbus |-> \ha87e, in |-> <<
        97>>],
    [ppp |-> \h33de, modbus |-> \hc9a9, in |-> <<
        97, 98>>],
    [ppp |-> \h9e25, modbus |-> \h5749, in |-> <<
        97, 98, 99>>],
    [ppp |-> \ha36b, modbus |-> \h1d97, in |-> <<
        97, 98, 99, 100>>],
    [ppp |-> \h19a5, modbus |-> \h859c, in |-> <<
        97, 98, 99, 100, 101>>],
    [ppp |-> \h04f6, modbus |-> \h4305, in |-> <<
        97, 98, 99, 100, 101, 102>>],
    [ppp |-> \h757c, modbus |-> \he9c2, in |-> <<
        97, 98, 99, 100, 101, 102, 103>>],
    [ppp |-> \ha6a8, modbus |-> \h7f69, in |-> <<
        97, 98, 99, 100, 101, 102, 103, 104>>],
    [ppp |-> \h275b, modbus |-> \h007f, in |-> <<
        97, 98, 99, 100, 101, 102, 103, 104, 105>>],
    [ppp |-> \hd055, modbus |-> \hcfc1, in |-> <<
        97, 98, 99, 100, 101, 102, 103, 104, 105, 106>>],
    [ppp |-> \h7025, modbus |-> \h21a5, in |-> <<
        68, 105, 115, 99, 97, 114, 100, 32, 109, 101, 100, 105, 99, 105, 110, 101,
        32, 109, 111, 114, 101, 32, 116, 104, 97, 110, 32, 116, 119, 111, 32, 121,
        101, 97, 114, 115, 32, 111, 108, 100, 46>>],
    [ppp |-> \h2be0, modbus |-> \h70e7, in |-> <<
        72, 101, 32, 119, 104, 111, 32, 104, 97, 115, 32, 97, 32, 115, 104, 97, 100,
        121, 32, 112, 97, 115, 116, 32, 107, 110, 111, 119, 115, 32, 116, 104, 97,
        116, 32, 110, 105, 99, 101, 32, 103, 117, 121, 115, 32, 102, 105, 110, 105,
        115, 104, 32, 108, 97, 115, 116, 46>>],
    [ppp |-> \h81d3, modbus |-> \h1974, in |-> <<
        73, 32, 119, 111, 117, 108, 100, 110, 39, 116, 32, 109, 97, 114, 114, 121,
        32, 104, 105, 109, 32, 119, 105, 116, 104, 32, 97, 32, 116, 101, 110, 32,
        102, 111, 111, 116, 32, 112, 111, 108, 101, 46>>],
    [ppp |-> \hf471, modbus |-> \hc315, in |-> <<
        70, 114, 101, 101, 33, 32, 70, 114, 101, 101, 33, 47, 65, 32, 116, 114, 105,
        112, 47, 116, 111, 32, 77, 97, 114, 115, 47, 102, 111, 114, 32, 57, 48, 48,
        47, 101, 109, 112, 116, 121, 32, 106, 97, 114, 115, 47, 66, 117, 114, 109,
        97, 32, 83, 104, 97, 118, 101>>],
    [ppp |-> \hdc73, modbus |-> \h0eab, in |-> <<
        84, 104, 101, 32, 100, 97, 121, 115, 32, 111, 102, 32, 116, 104, 101, 32,
        100, 105, 103, 105, 116, 97, 108, 32, 119, 97, 116, 99, 104, 32, 97, 114,
        101, 32, 110, 117, 109, 98, 101, 114, 101, 100, 46, 32, 32, 45, 84, 111,
        109, 32, 83, 116, 111, 112, 112, 97, 114, 100>>],
    [ppp |-> \h6a62, modbus |-> \ha782, in |-> <<
        78, 101, 112, 97, 108, 32, 112, 114, 101, 109, 105, 101, 114, 32, 119, 111,
        110, 39, 116, 32, 114, 101, 115, 105, 103, 110, 46>>],
    [ppp |-> \hd860, modbus |-> \h9201, in |-> <<
        70, 111, 114, 32, 101, 118, 101, 114, 121, 32, 97, 99, 116, 105, 111, 110,
        32, 116, 104, 101, 114, 101, 32, 105, 115, 32, 97, 110, 32, 101, 113, 117,
        97, 108, 32, 97, 110, 100, 32, 111, 112, 112, 111, 115, 105, 116, 101, 32,
        103, 111, 118, 101, 114, 110, 109, 101, 110, 116, 32, 112, 114, 111, 103,
        114, 97, 109, 46>>],
    [ppp |-> \hee04, modbus |-> \hefaf, in |-> <<
        72, 105, 115, 32, 109, 111, 110, 101, 121, 32, 105, 115, 32, 116, 119, 105,
        99, 101, 32, 116, 97, 105, 110, 116, 101, 100, 58, 32, 39, 116, 97, 105,
        110, 116, 32, 121, 111, 117, 114, 115, 32, 97, 110, 100, 32, 39, 116, 97,
        105, 110, 116, 32, 109, 105, 110, 101, 46>>],
    [ppp |-> \h1687, modbus |-> \hac2a, in |-> <<
        84, 104, 101, 114, 101, 32, 105, 115, 32, 110, 111, 32, 114, 101, 97, 115,
        111, 110, 32, 102, 111, 114, 32, 97, 110, 121, 32, 105, 110, 100, 105, 118,
        105, 100, 117, 97, 108, 32, 116, 111, 32, 104, 97, 118, 101, 32, 97, 32, 99,
        111, 109, 112, 117, 116, 101, 114, 32, 105, 110, 32, 116, 104, 101, 105,
        114, 32, 104, 111, 109, 101, 46, 32, 45, 75, 101, 110, 32, 79, 108, 115,
        101, 110, 44, 32, 49, 57, 55, 55>>],
    [ppp |-> \h497d, modbus |-> \had2e, in |-> <<
        73, 116, 39, 115, 32, 97, 32, 116, 105, 110, 121, 32, 99, 104, 97, 110, 103,
        101, 32, 116, 111, 32, 116, 104, 101, 32, 99, 111, 100, 101, 32, 97, 110,
        100, 32, 110, 111, 116, 32, 99, 111, 109, 112, 108, 101, 116, 101, 108, 121,
        32, 100, 105, 115, 103, 117, 115, 116, 105, 110, 103, 46, 32, 45, 32, 66,
        111, 98, 32, 77, 97, 110, 99, 104, 101, 107>>],
    [ppp |-> \h0073, modbus |-> \h9205, in |-> <<
        115, 105, 122, 101, 58, 32, 32, 97, 46, 111, 117, 116, 58, 32, 32, 98, 97,
        100, 32, 109, 97, 103, 105, 99>>],
    [ppp |-> \hccb3, modbus |-> \hd7d3, in |-> <<
        84, 104, 101, 32, 109, 97, 106, 111, 114, 32, 112, 114, 111, 98, 108, 101,
        109, 32, 105, 115, 32, 119, 105, 116, 104, 32, 115, 101, 110, 100, 109, 97,
        105, 108, 46, 32, 32, 45, 77, 97, 114, 107, 32, 72, 111, 114, 116, 111, 110>>],
    [ppp |-> \h9464, modbus |-> \h39a3, in |-> <<
        71, 105, 118, 101, 32, 109, 101, 32, 97, 32, 114, 111, 99, 107, 44, 32, 112,
        97, 112, 101, 114, 32, 97, 110, 100, 32, 115, 99, 105, 115, 115, 111, 114,
        115, 32, 97, 110, 100, 32, 73, 32, 119, 105, 108, 108, 32, 109, 111, 118,
        101, 32, 116, 104, 101, 32, 119, 111, 114, 108, 100, 46, 32, 32, 67, 67, 70,
        101, 115, 116, 111, 111, 110>>],
    [ppp |-> \h318e, modbus |-> \h24fd, in |-> <<
        73, 102, 32, 116, 104, 101, 32, 101, 110, 101, 109, 121, 32, 105, 115, 32,
        119, 105, 116, 104, 105, 110, 32, 114, 97, 110, 103, 101, 44, 32, 116, 104,
        101, 110, 32, 115, 111, 32, 97, 114, 101, 32, 121, 111, 117, 46>>],
    [ppp |-> \h2cbb, modbus |-> \hc7cf, in |-> <<
        73, 116, 39, 115, 32, 119, 101, 108, 108, 32, 119, 101, 32, 99, 97, 110,
        110, 111, 116, 32, 104, 101, 97, 114, 32, 116, 104, 101, 32, 115, 99, 114,
        101, 97, 109, 115, 47, 84, 104, 97, 116, 32, 119, 101, 32, 99, 114, 101, 97,
        116, 101, 32, 105, 110, 32, 111, 116, 104, 101, 114, 115, 39, 32, 100, 114,
        101, 97, 109, 115, 46>>],
    [ppp |-> \hde8b, modbus |-> \h1f3b, in |-> <<
        89, 111, 117, 32, 114, 101, 109, 105, 110, 100, 32, 109, 101, 32, 111, 102,
        32, 97, 32, 84, 86, 32, 115, 104, 111, 119, 44, 32, 98, 117, 116, 32, 116,
        104, 97, 116, 39, 115, 32, 97, 108, 108, 32, 114, 105, 103, 104, 116, 58,
        32, 73, 32, 119, 97, 116, 99, 104, 32, 105, 116, 32, 97, 110, 121, 119, 97,
        121, 46>>],
    [ppp |-> \hfe32, modbus |-> \h86c7, in |-> <<
        67, 32, 105, 115, 32, 97, 115, 32, 112, 111, 114, 116, 97, 98, 108, 101, 32,
        97, 115, 32, 83, 116, 111, 110, 101, 104, 101, 100, 103, 101, 33, 33>>],
    [ppp |-> \h9186, modbus |-> \hb89a, in |-> <<
        69, 118, 101, 110, 32, 105, 102, 32, 73, 32, 99, 111, 117, 108, 100, 32, 98,
        101, 32, 83, 104, 97, 107, 101, 115, 112, 101, 97, 114, 101, 44, 32, 73, 32,
        116, 104, 105, 110, 107, 32, 73, 32, 115, 104, 111, 117, 108, 100, 32, 115,
        116, 105, 108, 108, 32, 99, 104, 111, 111, 115, 101, 32, 116, 111, 32, 98,
        101, 32, 70, 97, 114, 97, 100, 97, 121, 46, 32, 45, 32, 65, 46, 32, 72, 117,
        120, 108, 101, 121>>],
    [ppp |-> \hd304, modbus |-> \hee28, in |-> <<
        84, 104, 101, 32, 102, 117, 103, 97, 99, 105, 116, 121, 32, 111, 102, 32,
        97, 32, 99, 111, 110, 115, 116, 105, 116, 117, 101, 110, 116, 32, 105, 110,
        32, 97, 32, 109, 105, 120, 116, 117, 114, 101, 32, 111, 102, 32, 103, 97,
        115, 101, 115, 32, 97, 116, 32, 97, 32, 103, 105, 118, 101, 110, 32, 116,
        101, 109, 112, 101, 114, 97, 116, 117, 114, 101, 32, 105, 115, 32, 112, 114,
        111, 112, 111, 114, 116, 105, 111, 110, 97, 108, 32, 116, 111, 32, 105, 116,
        115, 32, 109, 111, 108, 101, 32, 102, 114, 97, 99, 116, 105, 111, 110, 46,
        32, 32, 76, 101, 119, 105, 115, 45, 82, 97, 110, 100, 97, 108, 108, 32, 82,
        117, 108, 101>>],
    [ppp |-> \hfd73, modbus |-> \hb025, in |-> <<
        72, 111, 119, 32, 99, 97, 110, 32, 121, 111, 117, 32, 119, 114, 105, 116,
        101, 32, 97, 32, 98, 105, 103, 32, 115, 121, 115, 116, 101, 109, 32, 119,
        105, 116, 104, 111, 117, 116, 32, 67, 43, 43, 63, 32, 32, 45, 80, 97, 117,
        108, 32, 71, 108, 105, 99, 107>>]
>>

(***************************************************************************)
(* State.                                                                  *)
(*   c       the configuration the callers share (a *Conf)                 *)
(*   caller  per goroutine: where it is in New or Checksum                 *)
(*   dig     per goroutine: the digest it got from New (ok = it has one)   *)
(*   hist    per digest: the chunks written since New or the last Reset,   *)
(*           and whether that Reset came after bytes had been written      *)
(*   ret     what the last completed operation returned, until New or      *)
(*           Checksum is called again                                      *)
(*   builds  how many times makeTable has run                              *)
(*   rev     the locals of one call of reverse                             *)
(*   fold    one use of MakeTable/Update or MakeTableNBR/UpdateNBR         *)
(***************************************************************************)
VARIABLES c, caller, dig, hist, ret, builds, rev, fold

vars == <<c, caller, dig, hist, ret, builds, rev, fold>>

Idle == [pc |-> "idle", fn |-> "none", data |-> <<>>]
NoDigest == [ok |-> FALSE, crc |-> 0]
NoHist == [chunks |-> <<>>, reset |-> FALSE]
NoRet == [fn |-> "none"]
RevOff == [pc |-> "off", in |-> 0, v |-> 0, r |-> 0, s |-> 0, out |-> 0]
FoldOff == [on |-> FALSE]

RECURSIVE Concat(_)
\* the bytes of a sequence of chunks, in order
Concat(chunks) ==
    IF chunks = <<>> THEN <<>> ELSE Head(chunks) \o Concat(Tail(chunks))

(***************************************************************************)
(* The functions of the package, on values.                                *)
(***************************************************************************)
\* makeTableTable that gives MakeTable the polynomial as it is
makeTableTableNoReverse(conf) ==
    IF conf.BitRev THEN MakeTable(conf.Poly) ELSE MakeTableNBR(conf.Poly)

\* makeTable, first assignment: c.table = MakeTable(reverse(c.Poly)) or
\* MakeTableNBR(c.Poly)
makeTableTable(conf) ==
    IF conf.BitRev THEN MakeTable(reverse(conf.Poly)) ELSE MakeTableNBR(conf.Poly)

\* makeTable, second assignment: c.update = Update or UpdateNBR
makeTableUpdate(conf) == IF conf.BitRev THEN "Update" ELSE "UpdateNBR"

\* A call conf.update(crc, conf.table, p) panics when update is the nil func,
\* and when a byte is folded through the nil table.
Panics(conf, p) ==
    conf.update = NilFunc \/ (conf.table = NilTable /\ p # <<>>)

\* conf.update(crc, conf.table, p), when it does not panic
CallUpdate(conf, crc, p) ==
    IF conf.update = "Update" THEN Update(crc, conf.table, p)
    ELSE UpdateNBR(crc, conf.table, p)

\* New: &digest{crc: c.IniVal, conf: c}
New(conf) == [ok |-> TRUE, crc |-> conf.IniVal]

\* ResetCrc that clears the register
ResetCrcZero(d, conf) == [d EXCEPT !.crc = 0]

\* digest.Reset: d.crc = d.conf.IniVal
ResetCrc(d, conf) == [d EXCEPT !.crc = conf.IniVal]

\* WriteCrc that folds the chunk from the initial value
WriteCrcRestart(d, conf, p) == [d EXCEPT !.crc = CallUpdate(conf, conf.IniVal, p)]

\* digest.Write: d.crc = d.conf.update(d.crc, d.conf.table, p)
WriteCrc(d, conf, p) == [d EXCEPT !.crc = CallUpdate(conf, d.crc, p)]

\* Sum16Value without the final XOR
Sum16ValueNoFin(d, conf) == d.crc

\* digest.Sum16: d.crc ^ d.conf.FinVal
Sum16Value(d, conf) == Xor16(d.crc, conf.FinVal)

\* SumBytes that ignores BigEnd
SumBytesBigEndian(d, conf, in) ==
    in \o <<byte(Shr(Xor16(d.crc, conf.FinVal), 8)), byte(Xor16(d.crc, conf.FinVal))>>

\* digest.Sum: append(in, ...) of the two bytes of Sum16, ordered by BigEnd
SumBytes(d, conf, in) ==
    LET s == Sum16Value(d, conf)
    IN  IF conf.BigEnd
        THEN in \o <<byte(Shr(s, 8)), byte(s)>>
        ELSE in \o <<byte(s), byte(Shr(s, 8))>>

\* Checksum without the final XOR
ChecksumNoFin(conf, data) == CallUpdate(conf, conf.IniVal, data)

\* Checksum, after c.once.Do: c.update(c.IniVal, c.table, data) ^ c.FinVal
Checksum(conf, data) == Xor16(CallUpdate(conf, conf.IniVal, data), conf.FinVal)

(***************************************************************************)
(* New and Checksum: the call, c.once.Do(c.makeTable), the return.         *)
(* sync.Once.Do: if done == 0, lock m; if done is still 0, run f and then  *)
(* store done = 1; unlock m.                                               *)
(***************************************************************************)
Goto(p, pc) == caller' = [caller EXCEPT ![p].pc = pc]

\* NewCall that skips c.once.Do
NewCallNoOnce(p) ==
    /\ caller[p].pc = "idle"
    /\ caller' = [caller EXCEPT ![p] = [pc |-> "ret", fn |-> "New", data |-> <<>>]]
    /\ ret' = NoRet
    /\ UNCHANGED <<c, dig, hist, builds, rev, fold>>

NewCall(p) ==
    /\ caller[p].pc = "idle"
    /\ caller' = [caller EXCEPT ![p] = [pc |-> "once", fn |-> "New", data |-> <<>>]]
    /\ ret' = NoRet
    /\ UNCHANGED <<c, dig, hist, builds, rev, fold>>

ChecksumCall(p, data) ==
    /\ caller[p].pc = "idle"
    /\ caller' = [caller EXCEPT ![p] = [pc |-> "once", fn |-> "Checksum", data |-> data]]
    /\ ret' = NoRet
    /\ UNCHANGED <<c, dig, hist, builds, rev, fold>>

\* Once.Do: the load of done on the fast path
OnceDo(p) ==
    /\ caller[p].pc = "once"
    /\ IF c.once.done = 0 THEN Goto(p, "lock") ELSE Goto(p, "ret")
    /\ UNCHANGED <<c, dig, hist, ret, builds, rev, fold>>

\* Once.doSlow: m.Lock(), then the second load of done
OnceLock(p) ==
    /\ caller[p].pc = "lock"
    /\ c.once.m = 0
    /\ c' = [c EXCEPT !.once.m = p]
    /\ IF c.once.done = 0 THEN Goto(p, "table") ELSE Goto(p, "unlock")
    /\ UNCHANGED <<dig, hist, ret, builds, rev, fold>>

\* makeTable: c.table = ...  MakeTable and MakeTableNBR fill a table of their
\* own and return it, so c.table goes from nil to the finished table.
MakeTableStep(p) ==
    /\ caller[p].pc = "table"
    /\ c' = [c EXCEPT !.table = makeTableTable(c)]
    /\ builds' = builds + 1
    /\ Goto(p, "update")
    /\ UNCHANGED <<dig, hist, ret, rev, fold>>

\* makeTable: c.update = ...
MakeUpdateStep(p) ==
    /\ caller[p].pc = "update"
    /\ c' = [c EXCEPT !.update = makeTableUpdate(c)]
    /\ Goto(p, "done")
    /\ UNCHANGED <<dig, hist, ret, builds, rev, fold>>

\* Once.doSlow: the deferred done.Store(1)
OnceStore(p) ==
    /\ caller[p].pc = "done"
    /\ c' = [c EXCEPT !.once.done = 1]
    /\ Goto(p, "unlock")
    /\ UNCHANGED <<dig, hist, ret, builds, rev, fold>>

\* Once.doSlow: the deferred m.Unlock()
OnceUnlock(p) ==
    /\ caller[p].pc = "unlock"
    /\ c' = [c EXCEPT !.once.m = 0]
    /\ Goto(p, "ret")
    /\ UNCHANGED <<dig, hist, ret, builds, rev, fold>>

NewReturn(p) ==
    /\ caller[p].pc = "ret"
    /\ caller[p].fn = "New"
    /\ dig' = [dig EXCEPT ![p] = New(c)]
    /\ hist' = [hist EXCEPT ![p] = NoHist]
    /\ ret' = [fn |-> "New", p |-> p]
    /\ caller' = [caller EXCEPT ![p] = Idle]
    /\ UNCHANGED <<c, builds, rev, fold>>

ChecksumReturn(p) ==
    /\ caller[p].pc = "ret"
    /\ caller[p].fn = "Checksum"
    /\ IF Panics(c, caller[p].data)
       THEN /\ Goto(p, "panic")
            /\ UNCHANGED ret
       ELSE /\ ret' = [fn |-> "Checksum", p |-> p, data |-> caller[p].data,
                       val |-> Checksum(c, caller[p].data)]
            /\ caller' = [caller EXCEPT ![p] = Idle]
    /\ UNCHANGED <<c, dig, hist, builds, rev, fold>>

(***************************************************************************)
(* The methods of a digest.                                                *)
(***************************************************************************)
Write(p, chunk) ==
    /\ caller[p].pc = "idle"
    /\ dig[p].ok
    /\ Len(hist[p].chunks) < MaxWrites
    /\ IF Panics(c, chunk)
       THEN /\ Goto(p, "panic")
            /\ UNCHANGED <<dig, hist, ret>>
       ELSE /\ dig' = [dig EXCEPT ![p] = WriteCrc(dig[p], c, chunk)]
            /\ hist' = [hist EXCEPT ![p].chunks = Append(@, chunk)]
            /\ ret' = [fn |-> "Write", p |-> p, n |-> Len(chunk), err |-> "nil"]
            /\ UNCHANGED caller
    /\ UNCHANGED <<c, builds, rev, fold>>

Reset(p) ==
    /\ caller[p].pc = "idle"
    /\ dig[p].ok
    /\ dig' = [dig EXCEPT ![p] = ResetCrc(dig[p], c)]
    /\ hist' = [hist EXCEPT ![p] =
                   [chunks |-> <<>>,
                    reset |-> hist[p].reset \/ Concat(hist[p].chunks) # <<>>]]
    /\ ret' = [fn |-> "Reset", p |-> p]
    /\ UNCHANGED <<c, caller, builds, rev, fold>>

Sum16(p) ==
    /\ caller[p].pc = "idle"
    /\ dig[p].ok
    /\ ret' = [fn |-> "Sum16", p |-> p, val |-> Sum16Value(dig[p], c)]
    /\ UNCHANGED <<c, caller, dig, hist, builds, rev, fold>>

\* ret keeps the register as read before and after the call
Sum(p, in) ==
    /\ caller[p].pc = "idle"
    /\ dig[p].ok
    /\ dig' = dig
    /\ ret' = [fn |-> "Sum", p |-> p, in |-> in, out |-> SumBytes(dig[p], c, in),
               before |-> dig[p].crc, after |-> dig'[p].crc]
    /\ UNCHANGED <<c, caller, hist, builds, rev, fold>>

(***************************************************************************)
(* Inputs.                                                                 *)
(***************************************************************************)
\* chunks given to Write: "", "a", "bc", "abc", and the bytes ff 00
Chunks == {<<>>, <<97>>, <<98, 99>>, <<97, 98, 99>>, <<255, 0>>}
\* data given to Checksum
Datas == {<<>>, <<97, 98, 99>>, <<97, 98, 99, 255, 0>>}
\* slices given to Sum
Ins == {<<>>, <<1, 2, 3>>}

\* the goroutine of a sequential caller
Main == CHOOSE p \in Procs : \A q \in Procs : p <= q

InitCallers ==
    /\ caller = [p \in Procs |-> Idle]
    /\ dig = [p \in Procs |-> NoDigest]
    /\ hist = [p \in Procs |-> NoHist]
    /\ ret = NoRet
    /\ builds = 0

(***************************************************************************)
(* Spec: one goroutine uses a configuration and a digest.                  *)
(***************************************************************************)
Init ==
    /\ c \in Confs
    /\ InitCallers
    /\ rev = RevOff
    /\ fold = FoldOff

Next ==
    \/ NewCall(Main)
    \/ \E data \in Datas : ChecksumCall(Main, data)
    \/ OnceDo(Main)
    \/ OnceLock(Main)
    \/ MakeTableStep(Main)
    \/ MakeUpdateStep(Main)
    \/ OnceStore(Main)
    \/ OnceUnlock(Main)
    \/ NewReturn(Main)
    \/ ChecksumReturn(Main)
    \/ \E chunk \in Chunks : Write(Main, chunk)
    \/ Reset(Main)
    \/ Sum16(Main)
    \/ \E in \in Ins : Sum(Main, in)

Spec == Init /\ [][Next]_vars

(***************************************************************************)
(* SpecConc: several goroutines call New and Checksum on one predefined    *)
(* configuration whose table is not built yet; each digest is written once *)
(* by the goroutine that created it.                                       *)
(***************************************************************************)
ConcChunks == {<<97>>}
ConcDatas == {<<97>>}

InitConc ==
    /\ c \in Predefined
    /\ InitCallers
    /\ rev = RevOff
    /\ fold = FoldOff

NextConc ==
    \E p \in Procs :
        \/ NewCall(p)
        \/ \E data \in ConcDatas : ChecksumCall(p, data)
        \/ OnceDo(p)
        \/ OnceLock(p)
        \/ MakeTableStep(p)
        \/ MakeUpdateStep(p)
        \/ OnceStore(p)
        \/ OnceUnlock(p)
        \/ NewReturn(p)
        \/ ChecksumReturn(p)
        \/ \E chunk \in ConcChunks : hist[p].chunks = <<>> /\ Write(p, chunk)

SpecConc == InitConc /\ [][NextConc]_vars

(***************************************************************************)
(* SpecTests: the calls of TestCRCCheck and TestGolden, and the same calls *)
(* on the other predefined configurations: Checksum of an input of cTbl,   *)
(* and New, one Write of an input of golden, Sum16.                        *)
(***************************************************************************)
InitTests ==
    /\ c \in Predefined
    /\ InitCallers
    /\ rev = RevOff
    /\ fold = FoldOff

NextTests ==
    \/ NewCall(Main)
    \/ \E i \in DOMAIN cTbl : ChecksumCall(Main, cTbl[i].in)
    \/ OnceDo(Main)
    \/ OnceLock(Main)
    \/ MakeTableStep(Main)
    \/ MakeUpdateStep(Main)
    \/ OnceStore(Main)
    \/ OnceUnlock(Main)
    \/ NewReturn(Main)
    \/ ChecksumReturn(Main)
    \/ \E i \in DOMAIN golden : hist[Main].chunks = <<>> /\ Write(Main, golden[i].in)
    \/ Sum16(Main)

SpecTests == InitTests /\ [][NextTests]_vars

(***************************************************************************)
(* SpecReverse: one call of reverse on each uint16, an iteration of its    *)
(* loop per step.                                                          *)
(***************************************************************************)
InitReverse ==
    /\ c = X25
    /\ InitCallers
    /\ rev \in {[pc |-> "call", in |-> v, v |-> 0, r |-> 0, s |-> 0, out |-> 0] :
                   v \in Uint16}
    /\ fold = FoldOff

ReverseLocals(st) == [rev EXCEPT !.pc = "loop", !.v = st.v, !.r = st.r, !.s = st.s]

ReverseEnter ==
    /\ rev.pc = "call"
    /\ rev' = ReverseLocals(reverseEnter(rev.in))
    /\ UNCHANGED <<c, caller, dig, hist, ret, builds, fold>>

ReverseIter ==
    /\ rev.pc = "loop"
    /\ reverseCond(rev)
    /\ rev' = ReverseLocals(reverseBody(rev))
    /\ UNCHANGED <<c, caller, dig, hist, ret, builds, fold>>

ReverseReturn ==
    /\ rev.pc = "loop"
    /\ ~reverseCond(rev)
    /\ rev' = [rev EXCEPT !.pc = "done", !.out = reverseReturn(rev)]
    /\ UNCHANGED <<c, caller, dig, hist, ret, builds, fold>>

NextReverse == ReverseEnter \/ ReverseIter \/ ReverseReturn

SpecReverse == InitReverse /\ [][NextReverse]_vars

(***************************************************************************)
(* SpecFold: a table built by MakeTable or MakeTableNBR for a polynomial,  *)
(* and Update or UpdateNBR applied with it to a register value and a byte  *)
(* sequence that grows by one byte per step.                               *)
(***************************************************************************)
FoldPolys == {\hA001, \h8408, \h1021, \h8005, \h0001, \hffff}
FoldCrcs == {\h0000, \hffff, \h1d0f, \h8000, \h0001}
FoldBytes == {0, 1, 49, 97, 127, 128, 255}

InitFold ==
    /\ c = X25
    /\ InitCallers
    /\ rev = RevOff
    /\ fold \in {[on |-> TRUE, bitRev |-> bitRev, poly |-> poly,
                  tab |-> IF bitRev THEN MakeTable(poly) ELSE MakeTableNBR(poly),
                  crc |-> crc, p |-> <<>>, out |-> crc] :
                    bitRev \in BOOLEAN, poly \in FoldPolys, crc \in FoldCrcs}

FoldUpdate(b) ==
    /\ fold.on
    /\ fold.bitRev
    /\ Len(fold.p) < MaxFold
    /\ fold' = [fold EXCEPT !.p = Append(fold.p, b),
                            !.out = Update(fold.crc, fold.tab, Append(fold.p, b))]
    /\ UNCHANGED <<c, caller, dig, hist, ret, builds, rev>>

FoldUpdateNBR(b) ==
    /\ fold.on
    /\ ~fold.bitRev
    /\ Len(fold.p) < MaxFold
    /\ fold' = [fold EXCEPT !.p = Append(fold.p, b),
                            !.out = UpdateNBR(fold.crc, fold.tab, Append(fold.p, b))]
    /\ UNCHANGED <<c, caller, dig, hist, ret, builds, rev>>

NextFold ==
    \/ \E b \in FoldBytes : FoldUpdate(b)
    \/ \E b \in FoldBytes : FoldUpdateNBR(b)

SpecFold == InitFold /\ [][NextFold]_vars

(***************************************************************************)
(* Reference definitions the properties are stated with.                   *)
(***************************************************************************)
\* bit i of v
Bit(v, i) == (v \div (2 ^ i)) % 2

RECURSIVE MirrorFrom(_, _)
\* the sum, for the bits i..15, of bit 15-i of v placed at bit i
MirrorFrom(v, i) ==
    IF i > 15 THEN 0 ELSE Bit(v, 15 - i) * (2 ^ i) + MirrorFrom(v, i + 1)

\* the value whose bit i is bit 15-i of v
Mirror16(v) == MirrorFrom(v, 0)

RECURSIVE RoundsRight(_, _, _)
\* n rounds of: if the low bit is set, shift right and XOR poly, else shift right
RoundsRight(reg, poly, n) ==
    IF n = 0 THEN reg
    ELSE RoundsRight(IF reg % 2 = 1 THEN Xor16(reg \div 2, poly) ELSE reg \div 2,
                     poly, n - 1)

RECURSIVE RoundsLeft(_, _, _)
\* n rounds of: if the high bit is set, shift left and XOR poly, else shift left,
\* modulo 2^16
RoundsLeft(reg, poly, n) ==
    IF n = 0 THEN reg
    ELSE RoundsLeft(IF reg >= 32768 THEN Xor16((2 * reg) % 65536, poly)
                    ELSE (2 * reg) % 65536,
                    poly, n - 1)

RECURSIVE BitwiseFold(_, _, _)
\* for each byte in order: XOR it into the low byte, then 8 rounds to the right
BitwiseFold(reg, poly, p) ==
    IF p = <<>> THEN reg
    ELSE BitwiseFold(RoundsRight(Xor16(reg, Head(p)), poly, 8), poly, Tail(p))

RECURSIVE BitwiseFoldNBR(_, _, _)
\* for each byte in order: XOR it into the high byte, then 8 rounds to the left
BitwiseFoldNBR(reg, poly, p) ==
    IF p = <<>> THEN reg
    ELSE BitwiseFoldNBR(RoundsLeft(Xor16(reg, 256 * Head(p)), poly, 8), poly, Tail(p))

\* the table the builder selected by BitRev produces for Poly, per variant
BuilderTables ==
    {[Poly |-> poly, BitRev |-> bitRev,
      table |-> IF bitRev THEN MakeTable(Mirror16(poly)) ELSE MakeTableNBR(poly)] :
        poly \in ConfPolys, bitRev \in BOOLEAN}

\* the configuration carries the finished table and the fold of its convention
Bound(conf) ==
    /\ \E b \in BuilderTables :
          b.Poly = conf.Poly /\ b.BitRev = conf.BitRev /\ conf.table = b.table
    /\ conf.update = (IF conf.BitRev THEN "Update" ELSE "UpdateNBR")

RECURSIVE Fed(_, _, _)
\* digest d after Write(chunks[1]), ..., Write(chunks[n])
Fed(d, conf, chunks) ==
    IF chunks = <<>> THEN d
    ELSE Fed(WriteCrc(d, conf, Head(chunks)), conf, Tail(chunks))

\* the last two bytes of a sequence
LastTwo(s) == SubSeq(s, Len(s) - 1, Len(s))

(***************************************************************************)
(* Properties.                                                             *)
(***************************************************************************)

\* C1: Checksum of "123456789" under a predefined configuration returns the
\* check value cTbl lists for it: X25 and PPP 0x906e, Modbus 0x4b37,
\* XModem 0x31c3, Kermit 0x2189.
C1_CheckValues ==
    ret.fn = "Checksum" =>
        \A i \in DOMAIN cTbl :
            (Params(c) = Params(cTbl[i].cfg) /\ ret.data = cTbl[i].in)
                => ret.val = cTbl[i].sum

\* Checksum(XModem, "123456789") has returned 0x31c3.
C1_Witness ==
    /\ ret.fn = "Checksum"
    /\ Params(c) = Params(XModem)
    /\ ret.data = CheckInput
    /\ ret.val = \h31c3

\* C2: a digest from New(PPP) or New(Modbus), after one Write of an input of
\* golden, returns from Sum16 the value golden lists for that input and
\* configuration.
C2_Golden ==
    (ret.fn = "Sum16" /\ Len(hist[ret.p].chunks) = 1) =>
        \A i \in DOMAIN golden :
            hist[ret.p].chunks[1] = golden[i].in =>
                /\ Params(c) = Params(PPP) => ret.val = golden[i].ppp
                /\ Params(c) = Params(Modbus) => ret.val = golden[i].modbus

\* New(Modbus), Write("abc"), Sum16 has returned 0x5749.
C2_Witness ==
    /\ ret.fn = "Sum16"
    /\ Params(c) = Params(Modbus)
    /\ hist[ret.p].chunks = << <<97, 98, 99>> >>
    /\ ret.val = \h5749

\* C3: whatever chunks a digest has received since New, with Sum16 and Sum
\* calls between them or not, its Sum16 is Checksum of the concatenation of
\* the chunks, and so is the value Sum16 last returned.
C3_Streaming ==
    /\ \A p \in Procs :
          (dig[p].ok /\ ~hist[p].reset) =>
              Sum16Value(dig[p], c) = Checksum(c, Concat(hist[p].chunks))
    /\ (ret.fn = "Sum16" /\ ~hist[ret.p].reset) =>
          ret.val = Checksum(c, Concat(hist[ret.p].chunks))

\* Sum16 has returned after Write("a") and Write("bc").
C3_Witness ==
    /\ ret.fn = "Sum16"
    /\ ~hist[ret.p].reset
    /\ hist[ret.p].chunks = << <<97>>, <<98, 99>> >>
    /\ ret.val = Checksum(c, <<97, 98, 99>>)

\* C4: a digest that was Reset after bytes had been written, and then received
\* a sequence of writes, has the register, the Sum16 and the Sum of a digest
\* New(c) has just created and that received the same writes.
C4_ResetIsFresh ==
    \A p \in Procs :
        (dig[p].ok /\ hist[p].reset) =>
            LET fresh == Fed(New(c), c, hist[p].chunks)
            IN  /\ dig[p].crc = fresh.crc
                /\ Sum16Value(dig[p], c) = Sum16Value(fresh, c)
                /\ \A in \in Ins : SumBytes(dig[p], c, in) = SumBytes(fresh, c, in)

\* A digest with a nonzero initial value was written, Reset, and written again.
C4_Witness ==
    \E p \in Procs :
        /\ dig[p].ok
        /\ hist[p].reset
        /\ Concat(hist[p].chunks) # <<>>
        /\ c.IniVal # 0

\* C5: with several goroutines in New or Checksum on a configuration without
\* a table, makeTable runs at most once, no call panics on a nil table or a
\* nil update function, and a goroutine that is past once.Do, or that holds
\* a digest, finds the build completed: done set, the finished table and the
\* update function bound.
C5_OnceBarrier ==
    /\ builds <= 1
    /\ \A p \in Procs :
          /\ caller[p].pc # "panic"
          /\ (caller[p].pc = "ret" \/ dig[p].ok) =>
                (c.once.done = 1 /\ builds = 1 /\ Bound(c))

\* One goroutine is inside makeTable, the table assigned and the update
\* function not yet, while another waits for the mutex of the Once.
C5_Witness ==
    \E p, q \in Procs :
        /\ p # q
        /\ caller[p].pc = "update"
        /\ c.table # NilTable
        /\ c.update = NilFunc
        /\ caller[q].pc = "lock"
        /\ c.once.m = p

\* C6: Checksum of the empty sequence returns IniVal XOR FinVal, and so does
\* Sum16 of a digest from New that no byte was written to.
C6_EmptyInput ==
    /\ (ret.fn = "Checksum" /\ ret.data = <<>>) =>
          ret.val = Xor16(c.IniVal, c.FinVal)
    /\ (ret.fn = "Sum16" /\ ~hist[ret.p].reset /\ Concat(hist[ret.p].chunks) = <<>>) =>
          ret.val = Xor16(c.IniVal, c.FinVal)

\* Checksum of the empty sequence has returned, under IniVal 0x1d0f and
\* FinVal 0x00ff.
C6_Witness ==
    /\ ret.fn = "Checksum"
    /\ ret.data = <<>>
    /\ c.IniVal = \h1d0f
    /\ c.FinVal = \h00ff
    /\ ret.val = \h1df0

\* C7: Sum(in) returns in followed by exactly Size = 2 bytes, the high then
\* the low byte of Sum16() when BigEnd, the low then the high byte otherwise
\* (0x82f7 little-endian: f7, 82), and leaves the register as it was.
C7_SumBytes ==
    ret.fn = "Sum" =>
        LET s == Sum16Value(dig[ret.p], c)
            n == Len(ret.in)
        IN  /\ Len(ret.out) = n + Size
            /\ SubSeq(ret.out, 1, n) = ret.in
            /\ ret.out[n + 1] = (IF c.BigEnd THEN s \div 256 ELSE s % 256)
            /\ ret.out[n + 2] = (IF c.BigEnd THEN s % 256 ELSE s \div 256)
            /\ (s = \h82f7 /\ ~c.BigEnd) => LastTwo(ret.out) = <<\hf7, \h82>>
            /\ ret.after = ret.before
            /\ dig[ret.p].crc = ret.before

\* Sum of a three-byte slice has returned with the sum 0x82f7, little-endian.
C7_Witness ==
    /\ ret.fn = "Sum"
    /\ ret.in = <<1, 2, 3>>
    /\ ~c.BigEnd
    /\ Sum16Value(dig[ret.p], c) = \h82f7
    /\ ret.out = <<1, 2, 3, \hf7, \h82>>

\* C8: once a New or Checksum call has gone through once.Do, the
\* configuration carries the table its builder produces for its polynomial
\* and the fold of the same convention, and makeTable has run exactly once,
\* whatever New, Checksum, Write, Reset, Sum16 and Sum calls follow.
C8_BindingKept ==
    /\ builds <= 1
    /\ (c.once.done = 1 \/ caller[Main].pc = "ret" \/ dig[Main].ok
                        \/ ret.fn # "none") =>
          (c.once.done = 1 /\ builds = 1 /\ Bound(c))

\* After the build a digest was written, and a later Checksum call returned.
C8_Witness ==
    /\ ret.fn = "Checksum"
    /\ dig[Main].ok
    /\ Concat(hist[Main].chunks) # <<>>
    /\ hist[Main].reset
    /\ builds = 1

\* C9: Update with the table of MakeTable equals the bit-at-a-time fold to
\* the right, and UpdateNBR with the table of MakeTableNBR equals the
\* bit-at-a-time fold to the left, for the register value, polynomial and
\* byte sequence of the state.
C9_TableFoldIsBitwise ==
    fold.on =>
        IF fold.bitRev
        THEN fold.out = BitwiseFold(fold.crc, fold.poly, fold.p)
        ELSE fold.out = BitwiseFoldNBR(fold.crc, fold.poly, fold.p)

\* UpdateNBR has folded MaxFold bytes into the register 0x1d0f.
C9_Witness ==
    /\ fold.on
    /\ ~fold.bitRev
    /\ fold.crc = \h1d0f
    /\ Len(fold.p) = MaxFold
    /\ fold.out # fold.crc

\* C10: reverse makes at most 15 iterations and returns the value whose bit
\* i is bit 15-i of its argument; reversing the result gives the argument
\* back, reverse(0xA001) = 0x8005, and the table of a bit-reversed
\* configuration is MakeTable of the mirrored polynomial.
C10_Reverse ==
    /\ rev.pc = "loop" => (rev.s >= 0 /\ rev.s <= 15)
    /\ rev.pc = "done" =>
          /\ rev.out = Mirror16(rev.in)
          /\ rev.out = reverse(rev.in)
          /\ reverse(rev.out) = rev.in
          /\ rev.in = \hA001 => rev.out = \h8005
          /\ rev.in \in ConfPolys =>
                makeTableTable(Conf(rev.in, TRUE, 0, 0, FALSE)) = MakeTable(rev.out)

\* reverse has returned for an argument whose high bits are zero, after the
\* loop stopped early.
C10_Witness ==
    /\ rev.pc = "done"
    /\ rev.in = \h1021
    /\ rev.s > 0
    /\ rev.out = \h8408

====
